---- MODULE Spec2Model ----
(***************************************************************************)
(* Bit-banged half duplex three-wire driver for the Felica Plug (RC-S926), *)
(* firmware/peripheral/three_wire.c.                                       *)
(*                                                                         *)
(* The state is the AVR I/O register file the driver touches (TWSPI_DDR,   *)
(* TWSPI_PORT, PCICR, PCMSK0), the position of the single caller inside    *)
(* the driver function it is executing, and that function's locals.  A     *)
(* register is the set of the bit names that are 1 in it, so `reg |=       *)
(* _BV(b)' is a union and `reg &= ~_BV(b)' a set difference.               *)
(***************************************************************************)
EXTENDS Integers, Sequences, FiniteSets, TLC

(* ---------------------------------------------------------------- bounds *)

\* longest buffer handed to twspi_send_buf / twspi_send_buf_p / twspi_get_buf
MaxLen == 2

\* longest history of wake-source calls recorded in wakeLog
MaxWakeCalls == 3

\* how often one call of the caller can be interrupted
MaxIrqs == 1

(* ------------------------------------------------------------- constants *)

\* _delay_us(50) of rcs926_resume
ResumeDelayUs == 50

\* _delay_us(1) of the transfer functions
SettleDelayUs == 1

\* uint8_t i = 8 of twspi_send, i < 8 of twspi_get
BitsPerByte == 8

\* uint8_t arithmetic is modulo 2^8
Uint8Mod == 256

\* the mask 0x80 of `c & 0x80'
MsbMask == 128

(* ------------------------------------------------------------------ data *)

\* the bits of TWSPI_DDR / TWSPI_PORT / TWSPI_PIN the driver names
Lines == {"SEL", "CLK", "SW", "DATA", "IRQ", "RFDET"}

\* every value of a uint8_t
Byte == 0 .. (Uint8Mod - 1)

\* the byte values buffers are filled with: all-zero, all-one, 0xA5, 0x3C
SampleBytes == {0, 60, 165, 255}

\* the byte values buffers of more than one element are filled with
BufferBytes == {60, 165, 255}

\* the buffers of 1..MaxLen elements
Buffers == UNION {[1 .. n -> BufferBytes] : n \in 1 .. MaxLen}

\* _BV(b) set in reg
SetBit(reg, b) == reg \cup {b}

\* _BV(b) cleared in reg
ClearBit(reg, b) == reg \ {b}

\* the level (0/1) of bit b of reg
Level(reg, b) == IF b \in reg THEN 1 ELSE 0

\* bit k (0 = least significant) of the byte v
BitOf(v, k) == (v \div (2 ^ k)) % 2

\* the bits of the byte v, most significant first
MsbFirst(v) == [k \in 1 .. BitsPerByte |-> BitOf(v, BitsPerByte - k)]

\* the bits of the bytes of s, each most significant first, concatenated
RECURSIVE BitsOf(_)
BitsOf(s) == IF s = << >> THEN << >> ELSE MsbFirst(Head(s)) \o BitsOf(Tail(s))

(* ----------------------------------------------------------------- state *)

VARIABLES
  ddr,       \* TWSPI_DDR: the lines configured as outputs
  port,      \* TWSPI_PORT: the lines whose output latch is 1
  pcicr,     \* PCICR: the pin change interrupt groups enabled
  pcmsk0,    \* PCMSK0: the pins unmasked in group 0
  pc,        \* where the caller is: "idle", a statement of a function, "done"
  op,        \* the driver function the caller called ("none" when idle)
  c,         \* twspi_send: the byte being shifted out
  i,         \* twspi_send / twspi_get: the bit counter
  data,      \* twspi_get: the accumulator
  len,       \* twspi_send_buf / twspi_get_buf: the countdown
  bi,        \* twspi_send_buf / twspi_get_buf: how far buf++ has advanced
  mem,       \* the bytes the caller hands to twspi_send / twspi_send_buf
  out,       \* twspi_get_buf: the caller's buffer that is filled
  dev,       \* the bytes the RC-S926 shifts out on DATA during this call
  retBool,   \* the value returned by rcs926_data_ready / rcs926_rf_present
  retByte,   \* the value returned by twspi_get
  sample,    \* the lines read high by the last read of TWSPI_PIN in a query
  waited,    \* microseconds spent in _delay_us since the last register write
  bus,       \* the DATA latch at each rising edge of the CLK latch, this call
  inSend,    \* twspi_begin_send returned and twspi_end_send has not since
  wakeLog,   \* the wake-source calls made so far (recorded by WakeSpec only)
  ram,       \* the bytes that lie in memory right behind the caller's buffer
  pc2,       \* where the interrupt handler is inside its twspi_send ("idle")
  c2,        \* twspi_send of the interrupt handler: the byte being shifted out
  i2,        \* twspi_send of the interrupt handler: the bit counter
  irqs       \* how often the caller's current call has been interrupted

regs == <<ddr, port, pcicr, pcmsk0>>

locals == <<c, i, data, len, bi, mem, out, dev, retBool, retByte, sample, ram>>

\* the interrupt handler's own state
second == <<pc2, c2, i2, irqs>>

vars == <<ddr, port, pcicr, pcmsk0, pc, op, c, i, data, len, bi, mem, out, dev,
          retBool, retByte, sample, waited, bus, inSend, wakeLog, ram, pc2,
          c2, i2, irqs>>

\* the register file after reset: every DDR, PORT, PCICR and PCMSK0 bit is 0
Init ==
  /\ ddr = {}
  /\ port = {}
  /\ pcicr = {}
  /\ pcmsk0 = {}
  /\ pc = "idle"
  /\ op = "none"
  /\ c = 0
  /\ i = 0
  /\ data = 0
  /\ len = 0
  /\ bi = 0
  /\ mem = << >>
  /\ out = << >>
  /\ dev = << >>
  /\ retBool = FALSE
  /\ retByte = 0
  /\ sample = {}
  /\ waited = 0
  /\ bus = << >>
  /\ inSend = FALSE
  /\ wakeLog = << >>
  /\ ram = << >>
  /\ pc2 = "idle"
  /\ c2 = 0
  /\ i2 = 0
  /\ irqs = 0

\* a function that is one straight run of register writes: the caller goes
\* from idle to the function's return in one step
Enter(name) ==
  /\ pc = "idle"
  /\ pc' = "done"
  /\ op' = name
  /\ waited' = 0

\* the closing brace: the caller is back between two calls
Return ==
  /\ pc = "done"
  /\ pc' = "idle"
  /\ op' = "none"
  /\ c' = 0
  /\ i' = 0
  /\ data' = 0
  /\ len' = 0
  /\ bi' = 0
  /\ mem' = << >>
  /\ out' = << >>
  /\ dev' = << >>
  /\ retBool' = FALSE
  /\ retByte' = 0
  /\ sample' = {}
  /\ waited' = 0
  /\ bus' = << >>
  /\ ram' = << >>
  /\ irqs' = 0
  /\ UNCHANGED <<regs, inSend, wakeLog, pc2, c2, i2>>

(* ------------------------------------------------- configuration, power *)

\* twspi_init forgetting the clock
InitOutputsWithoutClk == {"SEL", "SW"}

\* twspi_init making DATA an output as well
InitOutputsWithData == {"SEL", "CLK", "SW", "DATA"}

\* the lines twspi_init makes outputs
InitOutputs == {"SEL", "CLK", "SW"}

\* twspi_disable releasing DATA as well
DisableInputsWithData == {"SEL", "CLK", "SW", "DATA"}

\* twspi_disable forgetting the power switch
DisableInputsWithoutSw == {"SEL", "CLK"}

\* the lines twspi_disable makes inputs
DisableInputs == {"SEL", "CLK", "SW"}

twspi_init ==
  /\ Enter("init")
  /\ ddr' = ddr \cup InitOutputs
  /\ UNCHANGED <<port, pcicr, pcmsk0, locals, bus, inSend, wakeLog, second>>

twspi_disable ==
  /\ Enter("disable")
  /\ ddr' = ddr \ DisableInputs
  /\ UNCHANGED <<port, pcicr, pcmsk0, locals, bus, inSend, wakeLog, second>>

rcs926_suspend ==
  /\ Enter("suspend")
  /\ port' = ClearBit(port, "SW")
  /\ UNCHANGED <<ddr, pcicr, pcmsk0, locals, bus, inSend, wakeLog, second>>

\* a delay that returns at once
DelayUsSkipped(sofar, us) == sofar

\* the time _delay_us(us) adds to the time waited so far
DelayUs(sofar, us) == sofar + us

\* TWSPI_PORT |= _BV(TWSPI_SW)
rcs926_resume ==
  /\ pc = "idle"
  /\ pc' = "resume_delay"
  /\ op' = "resume"
  /\ port' = SetBit(port, "SW")
  /\ waited' = 0
  /\ UNCHANGED <<ddr, pcicr, pcmsk0, locals, bus, inSend, wakeLog, second>>

\* _delay_us(50)
rcs926_resume_delay ==
  /\ pc = "resume_delay"
  /\ pc' = "done"
  /\ waited' = DelayUs(waited, ResumeDelayUs)
  /\ UNCHANGED <<regs, op, locals, bus, inSend, wakeLog, second>>

(* ---------------------------------------------------- presence queries *)

\* (TWSPI_PIN & _BV(TWSPI_IRQ)) converted to bool
DataReadyOf(pin) == "IRQ" \in pin

\* (TWSPI_PIN & _BV(TWSPI_RFDET)) != 0: the polarity inverted
RfPresentActiveHigh(pin) == "RFDET" \in pin

\* (TWSPI_PIN & _BV(TWSPI_RFDET)) == 0
RfPresentOf(pin) == "RFDET" \notin pin

\* the levels the two input pins can have when TWSPI_PIN is read
PinLevels == SUBSET {"IRQ", "RFDET"}

rcs926_data_ready ==
  /\ Enter("data_ready")
  /\ \E pin \in PinLevels :
       /\ sample' = pin
       /\ retBool' = DataReadyOf(pin)
  /\ UNCHANGED <<regs, c, i, data, len, bi, mem, out, dev, retByte, bus,
                 inSend, wakeLog, ram, second>>

rcs926_rf_present ==
  /\ Enter("rf_present")
  /\ \E pin \in PinLevels :
       /\ sample' = pin
       /\ retBool' = RfPresentOf(pin)
  /\ UNCHANGED <<regs, c, i, data, len, bi, mem, out, dev, retByte, bus,
                 inSend, wakeLog, ram, second>>

(* --------------------------------------------------------- wake sources *)

\* PCICR when disabling a source also clears the shared enable
WakeEnableRegCleared(reg, enable) ==
  IF enable THEN SetBit(reg, "PCIE0") ELSE ClearBit(reg, "PCIE0")

\* PCICR after a wake-source call
WakeEnableReg(reg, enable) == IF enable THEN SetBit(reg, "PCIE0") ELSE reg

\* PCMSK0 when disabling a source clears the whole mask
WakeMaskRegAllCleared(reg, b, enable) ==
  IF enable THEN SetBit(reg, b) ELSE {}

\* PCMSK0 after a wake-source call on the mask bit b
WakeMaskReg(reg, b, enable) ==
  IF enable THEN SetBit(reg, b) ELSE ClearBit(reg, b)

\* the call appended to the history when the history is being recorded
Logged(log, name, enable) ==
  IF log THEN Append(wakeLog, <<name, enable>>) ELSE wakeLog

rcs926_wake_up_on_rf(log) ==
  /\ Enter("wake_up_on_rf")
  /\ log => Len(wakeLog) < MaxWakeCalls
  /\ \E enable \in BOOLEAN :
       /\ pcicr' = WakeEnableReg(pcicr, enable)
       /\ pcmsk0' = WakeMaskReg(pcmsk0, "PCINT5", enable)
       /\ wakeLog' = Logged(log, "rf", enable)
  /\ UNCHANGED <<ddr, port, locals, bus, inSend, second>>

rcs926_wake_up_on_irq(log) ==
  /\ Enter("wake_up_on_irq")
  /\ log => Len(wakeLog) < MaxWakeCalls
  /\ \E enable \in BOOLEAN :
       /\ pcicr' = WakeEnableReg(pcicr, enable)
       /\ pcmsk0' = WakeMaskReg(pcmsk0, "PCINT4", enable)
       /\ wakeLog' = Logged(log, "irq", enable)
  /\ UNCHANGED <<ddr, port, locals, bus, inSend, second>>

(* ------------------------------------------------ direction switching *)

\* the SEL latch left as it is
SelectKept(reg) == reg

\* TWSPI_PORT &= ~_BV(TWSPI_SEL)
SelectLow(reg) == ClearBit(reg, "SEL")

\* TWSPI_PORT |= _BV(TWSPI_SEL)
SelectHigh(reg) == SetBit(reg, "SEL")

\* TWSPI_DDR |= _BV(TWSPI_DATA)
DataOutput(reg) == SetBit(reg, "DATA")

\* the DATA direction left as it is
DataKept(reg) == reg

\* TWSPI_DDR &= ~_BV(TWSPI_DATA)
DataInput(reg) == ClearBit(reg, "DATA")

\* TWSPI_PORT &= ~_BV(TWSPI_SEL)
twspi_begin_send ==
  /\ pc = "idle"
  /\ pc' = "bs_delay"
  /\ op' = "begin_send"
  /\ port' = SelectLow(port)
  /\ waited' = 0
  /\ UNCHANGED <<ddr, pcicr, pcmsk0, locals, bus, inSend, wakeLog, second>>

\* _delay_us(1)
twspi_begin_send_delay ==
  /\ pc = "bs_delay"
  /\ pc' = "bs_ddr"
  /\ waited' = DelayUs(waited, SettleDelayUs)
  /\ UNCHANGED <<regs, op, locals, bus, inSend, wakeLog, second>>

\* TWSPI_DDR |= _BV(TWSPI_DATA)
twspi_begin_send_ddr ==
  /\ pc = "bs_ddr"
  /\ pc' = "done"
  /\ ddr' = DataOutput(ddr)
  /\ waited' = 0
  /\ inSend' = TRUE
  /\ UNCHANGED <<port, pcicr, pcmsk0, op, locals, bus, wakeLog, second>>

\* _delay_us(1)
twspi_end_send ==
  /\ pc = "idle"
  /\ pc' = "es_ddr"
  /\ op' = "end_send"
  /\ waited' = DelayUs(0, SettleDelayUs)
  /\ UNCHANGED <<regs, locals, bus, inSend, wakeLog, second>>

\* TWSPI_DDR &= ~_BV(TWSPI_DATA)
twspi_end_send_ddr ==
  /\ pc = "es_ddr"
  /\ pc' = "es_delay"
  /\ ddr' = DataInput(ddr)
  /\ waited' = 0
  /\ UNCHANGED <<port, pcicr, pcmsk0, op, locals, bus, inSend, wakeLog,
                 second>>

\* _delay_us(1)
twspi_end_send_delay ==
  /\ pc = "es_delay"
  /\ pc' = "es_sel"
  /\ waited' = DelayUs(waited, SettleDelayUs)
  /\ UNCHANGED <<regs, op, locals, bus, inSend, wakeLog, second>>

\* TWSPI_PORT |= _BV(TWSPI_SEL)
twspi_end_send_sel ==
  /\ pc = "es_sel"
  /\ pc' = "done"
  /\ port' = SelectHigh(port)
  /\ waited' = 0
  /\ inSend' = FALSE
  /\ UNCHANGED <<ddr, pcicr, pcmsk0, op, locals, bus, wakeLog, second>>

(* ----------------------------------------------------------- the clock *)

\* the falling edge left out
ClockLowSkipped(reg) == reg

\* TWSPI_PORT &= ~_BV(TWSPI_CLK)
ClockLow(reg) == ClearBit(reg, "CLK")

\* TWSPI_PORT = _BV(TWSPI_CLK): an assignment instead of |=
ClockHighAssigned(reg) == {"CLK"}

\* TWSPI_PORT |= _BV(TWSPI_CLK)
ClockHigh(reg) == SetBit(reg, "CLK")

\* what a rising edge of the CLK latch clocks onto the bus: the DATA latch
\* at that moment; a write of 1 over a latch that is 1 is no edge
Clocked(reg) ==
  IF "CLK" \in reg THEN bus ELSE Append(bus, Level(reg, "DATA"))

(* ------------------------------------------------------------- sending *)

\* c & 0x01: the least significant bit tested instead
LsbSet(byte) == byte % 2 = 1

\* c & 0x80
MsbSet(byte) == (byte \div MsbMask) % 2 = 1

\* c left as it is
ShiftLeftSkipped(byte) == byte

\* c <<= 1, in a uint8_t
ShiftLeft(byte) == (byte * 2) % Uint8Mod

\* --x that stops at 0 instead of wrapping to 255
DecrementNoWrap(x) == IF x = 0 THEN 0 ELSE x - 1

\* --x of a uint8_t
Decrement(x) == (x - 1) % Uint8Mod

\* twspi_send(v): uint8_t i = 8
twspi_send(values) ==
  /\ pc = "idle"
  /\ pc' = "send_clk_lo"
  /\ op' = "send"
  /\ \E v \in values : c' = v /\ mem' = <<v>>
  /\ i' = BitsPerByte
  /\ waited' = 0
  /\ UNCHANGED <<regs, data, len, bi, out, dev, retBool, retByte, sample, bus,
                 inSend, wakeLog, ram, second>>

\* TWSPI_PORT &= ~_BV(TWSPI_CLK)
twspi_send_clk_lo ==
  /\ pc = "send_clk_lo"
  /\ pc' = "send_data"
  /\ port' = ClockLow(port)
  /\ waited' = 0
  /\ UNCHANGED <<ddr, pcicr, pcmsk0, op, locals, bus, inSend, wakeLog, second>>

\* if (c & 0x80) TWSPI_PORT |= _BV(TWSPI_DATA); else TWSPI_PORT &= ~...; c <<= 1
twspi_send_data ==
  /\ pc = "send_data"
  /\ pc' = "send_delay1"
  /\ port' = IF MsbSet(c) THEN SetBit(port, "DATA") ELSE ClearBit(port, "DATA")
  /\ c' = ShiftLeft(c)
  /\ waited' = 0
  /\ UNCHANGED <<ddr, pcicr, pcmsk0, op, i, data, len, bi, mem, out, dev,
                 retBool, retByte, sample, bus, inSend, wakeLog, ram, second>>

\* _delay_us(1)
twspi_send_delay1 ==
  /\ pc = "send_delay1"
  /\ pc' = "send_clk_hi"
  /\ waited' = DelayUs(waited, SettleDelayUs)
  /\ UNCHANGED <<regs, op, locals, bus, inSend, wakeLog, second>>

\* TWSPI_PORT |= _BV(TWSPI_CLK)
twspi_send_clk_hi ==
  /\ pc = "send_clk_hi"
  /\ pc' = "send_delay2"
  /\ port' = ClockHigh(port)
  /\ bus' = Clocked(port)
  /\ waited' = 0
  /\ UNCHANGED <<ddr, pcicr, pcmsk0, op, locals, inSend, wakeLog, second>>

\* _delay_us(1); } while (--i); and the return to the caller
twspi_send_delay2 ==
  /\ pc = "send_delay2"
  /\ waited' = DelayUs(waited, SettleDelayUs)
  /\ i' = Decrement(i)
  /\ pc' = IF i' # 0 THEN "send_clk_lo"
           ELSE IF op = "send" THEN "done" ELSE "sbuf_loop"
  /\ UNCHANGED <<regs, op, c, data, len, bi, mem, out, dev, retBool, retByte,
                 sample, bus, inSend, wakeLog, ram, second>>

\* *buf after buf++ has advanced k times
BufAt(buf, k) == buf[k + 1]

\* buf without the ++
NoAdvance(k) == k

\* buf++
Advance(k) == k + 1

\* the byte values found in memory behind a buffer
BehindBytes == {0, 255}

\* what can lie behind a buffer, as far as a uint8_t count can reach
Behind == {[k \in 1 .. Uint8Mod |-> b] : b \in BehindBytes}

\* the calls that keep the precondition: len is the buffer's length, 1..MaxLen
SendCalls == {[buf |-> b, behind |-> << >>] : b \in Buffers}

\* the calls with len = 0: no element belongs to the caller's buffer
ZeroSendCalls == {[buf |-> << >>, behind |-> r] : r \in Behind}

\* *buf after buf++ has advanced k times, for a buffer of Len(buf) elements
\* with the bytes of behind following it in memory
ReadBuf(buf, behind, k) ==
  IF k < Len(buf) THEN BufAt(buf, k) ELSE BufAt(behind, k - Len(buf))

\* twspi_send_buf(buf, len) / twspi_send_buf_p(buf, len): twspi_send(*buf++)
SendBufCall(name, calls) ==
  /\ pc = "idle"
  /\ pc' = "send_clk_lo"
  /\ op' = name
  /\ \E call \in calls :
       /\ mem' = call.buf
       /\ ram' = call.behind
       /\ len' = Len(call.buf)
       /\ c' = ReadBuf(call.buf, call.behind, 0)
  /\ bi' = Advance(0)
  /\ i' = BitsPerByte
  /\ waited' = 0
  /\ UNCHANGED <<regs, data, out, dev, retBool, retByte, sample, bus, inSend,
                 wakeLog, second>>

twspi_send_buf == SendBufCall("send_buf", SendCalls)

twspi_send_buf_p == SendBufCall("send_buf_p", SendCalls)

\* twspi_send_buf(buf, 0)
twspi_send_buf_zero == SendBufCall("send_buf", ZeroSendCalls)

\* twspi_send_buf_p(buf, 0)
twspi_send_buf_p_zero == SendBufCall("send_buf_p", ZeroSendCalls)

\* } while (--len); twspi_send(*buf++)
twspi_send_buf_loop ==
  /\ pc = "sbuf_loop"
  /\ len' = Decrement(len)
  /\ IF len' # 0
       THEN /\ pc' = "send_clk_lo"
            /\ c' = ReadBuf(mem, ram, bi)
            /\ bi' = Advance(bi)
            /\ i' = BitsPerByte
       ELSE /\ pc' = "done"
            /\ UNCHANGED <<c, bi, i>>
  /\ UNCHANGED <<regs, op, data, mem, out, dev, retBool, retByte, sample,
                 waited, bus, inSend, wakeLog, ram, second>>

(* ----------------------------------------------------------- receiving *)

\* the level the RC-S926 puts on DATA after it has seen n clock cycles of
\* this call: bit n of the bytes it shifts out, most significant bit first
DeviceLevel(bytes, n) ==
  BitOf(bytes[(n \div BitsPerByte) + 1], (BitsPerByte - 1) - (n % BitsPerByte))

\* TWSPI_PIN & _BV(TWSPI_DATA): a pin that is an output reads back its own
\* latch, a pin that is an input reads what the RC-S926 drives
DataPin == IF "DATA" \in ddr THEN Level(port, "DATA")
           ELSE DeviceLevel(dev, Len(bus))

\* data >>= 1; if (pin) data |= 0x80: the accumulator filled from the top
ShiftInFromTop(acc, level) == (acc \div 2) + level * MsbMask

\* data <<= 1; if (pin) data |= 1;
ShiftIn(acc, level) ==
  LET shifted == ShiftLeft(acc)
  IN  IF level = 1 /\ shifted % 2 = 0 THEN shifted + 1 ELSE shifted

\* i++ of a uint8_t
Increment(x) == (x + 1) % Uint8Mod

\* twspi_get(): uint8_t data = 0; i = 0
twspi_get(values) ==
  /\ pc = "idle"
  /\ pc' = "get_clk_lo"
  /\ op' = "get"
  /\ \E b \in values : dev' = <<b>>
  /\ data' = 0
  /\ i' = 0
  /\ waited' = 0
  /\ UNCHANGED <<regs, c, len, bi, mem, out, retBool, retByte, sample, bus,
                 inSend, wakeLog, ram, second>>

\* TWSPI_PORT &= ~_BV(TWSPI_CLK)
twspi_get_clk_lo ==
  /\ pc = "get_clk_lo"
  /\ pc' = "get_delay1"
  /\ port' = ClockLow(port)
  /\ waited' = 0
  /\ UNCHANGED <<ddr, pcicr, pcmsk0, op, locals, bus, inSend, wakeLog, second>>

\* _delay_us(1)
twspi_get_delay1 ==
  /\ pc = "get_delay1"
  /\ pc' = "get_sample"
  /\ waited' = DelayUs(waited, SettleDelayUs)
  /\ UNCHANGED <<regs, op, locals, bus, inSend, wakeLog, second>>

\* a sample that first waits for the RC-S926 to raise DATA
twspi_get_sample_waiting ==
  /\ pc = "get_sample"
  /\ DataPin = 1
  /\ pc' = "get_clk_hi"
  /\ data' = ShiftIn(data, DataPin)
  /\ UNCHANGED <<regs, op, c, i, len, bi, mem, out, dev, retBool, retByte,
                 sample, waited, bus, inSend, wakeLog, ram, second>>

\* data <<= 1; if (TWSPI_PIN & _BV(TWSPI_DATA)) data |= 1;
twspi_get_sample ==
  /\ pc = "get_sample"
  /\ pc' = "get_clk_hi"
  /\ data' = ShiftIn(data, DataPin)
  /\ UNCHANGED <<regs, op, c, i, len, bi, mem, out, dev, retBool, retByte,
                 sample, waited, bus, inSend, wakeLog, ram, second>>

\* TWSPI_PORT |= _BV(TWSPI_CLK)
twspi_get_clk_hi ==
  /\ pc = "get_clk_hi"
  /\ pc' = "get_delay2"
  /\ port' = ClockHigh(port)
  /\ bus' = Clocked(port)
  /\ waited' = 0
  /\ UNCHANGED <<ddr, pcicr, pcmsk0, op, locals, inSend, wakeLog, second>>

\* _delay_us(1); i++; i < 8; return data;
twspi_get_delay2 ==
  /\ pc = "get_delay2"
  /\ waited' = DelayUs(waited, SettleDelayUs)
  /\ i' = Increment(i)
  /\ IF i' < BitsPerByte
       THEN pc' = "get_clk_lo" /\ UNCHANGED retByte
       ELSE IF op = "get"
         THEN pc' = "done" /\ retByte' = data
         ELSE pc' = "gbuf_store" /\ UNCHANGED retByte
  /\ UNCHANGED <<regs, op, c, data, len, bi, mem, out, dev, retBool, sample,
                 bus, inSend, wakeLog, ram, second>>

\* *buf = v with buf still at the first element
StoreAtFirst(buf, k, v) == [buf EXCEPT ![1] = v]

\* *buf = v after buf++ has advanced k times
StoreAt(buf, k, v) == [buf EXCEPT ![k + 1] = v]

\* the calls that keep the precondition: len in 1..MaxLen, the RC-S926
\* presenting len bytes
GetCalls == {[n |-> Len(b), dev |-> b, behind |-> << >>] : b \in Buffers}

\* the calls with len = 0, the RC-S926 presenting the same byte for as long
\* as it is clocked
ZeroGetCalls ==
  {[n |-> 0, dev |-> [k \in 1 .. Uint8Mod |-> b], behind |-> r] :
     b \in BehindBytes, r \in Behind}

\* twspi_get_buf(buf, len): the first twspi_get()
GetBufCall(calls) ==
  /\ pc = "idle"
  /\ pc' = "get_clk_lo"
  /\ op' = "get_buf"
  /\ \E call \in calls :
       /\ dev' = call.dev
       /\ ram' = call.behind
       /\ len' = call.n
       /\ out' = [k \in 1 .. call.n |-> 0]
  /\ bi' = 0
  /\ data' = 0
  /\ i' = 0
  /\ waited' = 0
  /\ UNCHANGED <<regs, c, mem, retBool, retByte, sample, bus, inSend, wakeLog,
                 second>>

twspi_get_buf == GetBufCall(GetCalls)

\* twspi_get_buf(buf, 0)
twspi_get_buf_zero == GetBufCall(ZeroGetCalls)

\* *buf++ = <returned byte>; } while (--len); the next twspi_get()
twspi_get_buf_store ==
  /\ pc = "gbuf_store"
  /\ IF bi < Len(out)
       THEN out' = StoreAt(out, bi, data) /\ ram' = ram
       ELSE ram' = StoreAt(ram, bi - Len(out), data) /\ out' = out
  /\ bi' = Advance(bi)
  /\ len' = Decrement(len)
  /\ IF len' # 0
       THEN pc' = "get_clk_lo" /\ data' = 0 /\ i' = 0
       ELSE pc' = "done" /\ UNCHANGED <<data, i>>
  /\ UNCHANGED <<regs, op, c, mem, dev, retBool, retByte, sample, waited, bus,
                 inSend, wakeLog, second>>

(* ---------------------------------------------- a second context *)

\* the bytes the caller sends while interrupts are enabled
MainBytes == {60, 165}

\* the bytes the interrupt handler sends
IsrBytes == {0, 255}

\* the statements of twspi_send
SendSteps ==
  {"send_clk_lo", "send_data", "send_delay1", "send_clk_hi", "send_delay2"}

\* a statement of the caller: it runs only while no interrupt handler does
Main(A) == pc2 = "idle" /\ A

\* an interrupt between two statements of the caller's twspi_send, whose
\* handler calls twspi_send(w): uint8_t i = 8
isr_twspi_send ==
  /\ op = "send"
  /\ pc \in SendSteps
  /\ pc2 = "idle"
  /\ irqs < MaxIrqs
  /\ pc2' = "send_clk_lo"
  /\ \E w \in IsrBytes : c2' = w
  /\ i2' = BitsPerByte
  /\ irqs' = irqs + 1
  /\ UNCHANGED <<regs, pc, op, locals, waited, bus, inSend, wakeLog>>

\* TWSPI_PORT &= ~_BV(TWSPI_CLK)
isr_send_clk_lo ==
  /\ pc2 = "send_clk_lo"
  /\ pc2' = "send_data"
  /\ port' = ClockLow(port)
  /\ waited' = 0
  /\ UNCHANGED <<ddr, pcicr, pcmsk0, pc, op, locals, bus, inSend, wakeLog, c2,
                 i2, irqs>>

\* if (c & 0x80) TWSPI_PORT |= _BV(TWSPI_DATA); else TWSPI_PORT &= ~...; c <<= 1
isr_send_data ==
  /\ pc2 = "send_data"
  /\ pc2' = "send_delay1"
  /\ port' = IF MsbSet(c2) THEN SetBit(port, "DATA") ELSE ClearBit(port, "DATA")
  /\ c2' = ShiftLeft(c2)
  /\ waited' = 0
  /\ UNCHANGED <<ddr, pcicr, pcmsk0, pc, op, locals, bus, inSend, wakeLog, i2,
                 irqs>>

\* _delay_us(1)
isr_send_delay1 ==
  /\ pc2 = "send_delay1"
  /\ pc2' = "send_clk_hi"
  /\ waited' = DelayUs(waited, SettleDelayUs)
  /\ UNCHANGED <<regs, pc, op, locals, bus, inSend, wakeLog, c2, i2, irqs>>

\* TWSPI_PORT |= _BV(TWSPI_CLK)
isr_send_clk_hi ==
  /\ pc2 = "send_clk_hi"
  /\ pc2' = "send_delay2"
  /\ port' = ClockHigh(port)
  /\ bus' = Clocked(port)
  /\ waited' = 0
  /\ UNCHANGED <<ddr, pcicr, pcmsk0, pc, op, locals, inSend, wakeLog, c2, i2,
                 irqs>>

\* _delay_us(1); } while (--i); and the return from the interrupt
isr_send_delay2 ==
  /\ pc2 = "send_delay2"
  /\ waited' = DelayUs(waited, SettleDelayUs)
  /\ i2' = Decrement(i2)
  /\ pc2' = IF i2' # 0 THEN "send_clk_lo" ELSE "idle"
  /\ UNCHANGED <<regs, pc, op, locals, bus, inSend, wakeLog, c2, irqs>>

Next ==
  \/ twspi_init
  \/ twspi_disable
  \/ rcs926_suspend
  \/ rcs926_resume
  \/ rcs926_resume_delay
  \/ rcs926_data_ready
  \/ rcs926_rf_present
  \/ rcs926_wake_up_on_rf(FALSE)
  \/ rcs926_wake_up_on_irq(FALSE)
  \/ twspi_begin_send
  \/ twspi_begin_send_delay
  \/ twspi_begin_send_ddr
  \/ twspi_end_send
  \/ twspi_end_send_ddr
  \/ twspi_end_send_delay
  \/ twspi_end_send_sel
  \/ twspi_send(SampleBytes)
  \/ twspi_send_clk_lo
  \/ twspi_send_data
  \/ twspi_send_delay1
  \/ twspi_send_clk_hi
  \/ twspi_send_delay2
  \/ twspi_send_buf
  \/ twspi_send_buf_p
  \/ twspi_send_buf_loop
  \/ twspi_get(SampleBytes)
  \/ twspi_get_clk_lo
  \/ twspi_get_delay1
  \/ twspi_get_sample
  \/ twspi_get_clk_hi
  \/ twspi_get_delay2
  \/ twspi_get_buf
  \/ twspi_get_buf_store
  \/ Return

Spec == Init /\ [][Next]_vars

\* the statements inside a function: what the processor executes next once a
\* function has been entered
Step ==
  \/ rcs926_resume_delay
  \/ twspi_begin_send_delay
  \/ twspi_begin_send_ddr
  \/ twspi_end_send_ddr
  \/ twspi_end_send_delay
  \/ twspi_end_send_sel
  \/ twspi_send_clk_lo
  \/ twspi_send_data
  \/ twspi_send_delay1
  \/ twspi_send_clk_hi
  \/ twspi_send_delay2
  \/ twspi_send_buf_loop
  \/ twspi_get_clk_lo
  \/ twspi_get_delay1
  \/ twspi_get_sample
  \/ twspi_get_clk_hi
  \/ twspi_get_delay2
  \/ twspi_get_buf_store

\* the transfer engine alone: direction switching and the five transfers
TransferNext ==
  \/ twspi_begin_send
  \/ twspi_begin_send_delay
  \/ twspi_begin_send_ddr
  \/ twspi_end_send
  \/ twspi_end_send_ddr
  \/ twspi_end_send_delay
  \/ twspi_end_send_sel
  \/ twspi_send(SampleBytes)
  \/ twspi_send_clk_lo
  \/ twspi_send_data
  \/ twspi_send_delay1
  \/ twspi_send_clk_hi
  \/ twspi_send_delay2
  \/ twspi_send_buf
  \/ twspi_send_buf_p
  \/ twspi_send_buf_loop
  \/ twspi_get(SampleBytes)
  \/ twspi_get_clk_lo
  \/ twspi_get_delay1
  \/ twspi_get_sample
  \/ twspi_get_clk_hi
  \/ twspi_get_delay2
  \/ twspi_get_buf
  \/ twspi_get_buf_store
  \/ Return

\* the transfer engine on a processor that keeps executing: a function that
\* has been entered is not left half way, every _delay_us comes to its end
FairSpec == Init /\ [][TransferNext]_vars /\ WF_vars(Step)

\* the byte transfers alone, over every value of a byte
ByteNext ==
  \/ twspi_init
  \/ twspi_begin_send
  \/ twspi_begin_send_delay
  \/ twspi_begin_send_ddr
  \/ twspi_end_send
  \/ twspi_end_send_ddr
  \/ twspi_end_send_delay
  \/ twspi_end_send_sel
  \/ twspi_send(Byte)
  \/ twspi_send_clk_lo
  \/ twspi_send_data
  \/ twspi_send_delay1
  \/ twspi_send_clk_hi
  \/ twspi_send_delay2
  \/ twspi_get(Byte)
  \/ twspi_get_clk_lo
  \/ twspi_get_delay1
  \/ twspi_get_sample
  \/ twspi_get_clk_hi
  \/ twspi_get_delay2
  \/ Return

ByteSpec == Init /\ [][ByteNext]_vars

\* the wake-source calls alone, with their history recorded
WakeNext ==
  \/ rcs926_wake_up_on_rf(TRUE)
  \/ rcs926_wake_up_on_irq(TRUE)
  \/ Return

WakeSpec == Init /\ [][WakeNext]_vars

\* twspi_send of the caller, interrupted by a handler that calls twspi_send
ConcNext ==
  \/ Main(twspi_send(MainBytes))
  \/ Main(twspi_send_clk_lo)
  \/ Main(twspi_send_data)
  \/ Main(twspi_send_delay1)
  \/ Main(twspi_send_clk_hi)
  \/ Main(twspi_send_delay2)
  \/ Main(Return)
  \/ isr_twspi_send
  \/ isr_send_clk_lo
  \/ isr_send_data
  \/ isr_send_delay1
  \/ isr_send_clk_hi
  \/ isr_send_delay2

ConcSpec == Init /\ [][ConcNext]_vars

\* the buffer transfers called with len = 0
ZeroNext ==
  \/ twspi_send_buf_zero
  \/ twspi_send_buf_p_zero
  \/ twspi_send_clk_lo
  \/ twspi_send_data
  \/ twspi_send_delay1
  \/ twspi_send_clk_hi
  \/ twspi_send_delay2
  \/ twspi_send_buf_loop
  \/ twspi_get_buf_zero
  \/ twspi_get_clk_lo
  \/ twspi_get_delay1
  \/ twspi_get_sample
  \/ twspi_get_clk_hi
  \/ twspi_get_delay2
  \/ twspi_get_buf_store
  \/ Return

ZeroSpec == Init /\ [][ZeroNext]_vars

(* ================================================================ claims *)

\* the three lines twspi_init and twspi_disable configure
Controlled == {"SEL", "CLK", "SW"}

\* the most recent wake-source call of the history
LastCall(log) == log[Len(log)]

\* the wake-source calls of the history that passed enable = true
EnabledOnce(log) == \E k \in DOMAIN log : log[k][2]

\* C1: twspi_send(v) clocks exactly 8 rising edges, and the DATA latch at the
\* k-th of them is bit 8-k of v: the bits of v, most significant first.
C1_SendByteMsbFirst ==
  op = "send" =>
    /\ Len(bus) <= BitsPerByte
    /\ \A k \in 1 .. Len(bus) : bus[k] = BitOf(mem[1], BitsPerByte - k)
    /\ pc = "done" => Len(bus) = BitsPerByte

C1_Witness ==
  /\ pc = "done"
  /\ op = "send"
  /\ mem = <<165>>
  /\ bus = <<1, 0, 1, 0, 0, 1, 0, 1>>

\* C2: twspi_send_buf / twspi_send_buf_p call twspi_send once per element, in
\* order: the bus carries 8 * length cycles whose bits are the elements'
\* bits, each most significant first, concatenated.
C2_SendBufferInOrder ==
  (pc = "done" /\ op \in {"send_buf", "send_buf_p"}) =>
    /\ bi = Len(mem)
    /\ Len(bus) = BitsPerByte * Len(mem)
    /\ bus = BitsOf(mem)

C2_Witness ==
  /\ pc = "done"
  /\ op = "send_buf"
  /\ mem = <<165, 60>>
  /\ bus = <<1, 0, 1, 0, 0, 1, 0, 1, 0, 0, 1, 1, 1, 1, 0, 0>>

\* C3: twspi_get samples DATA only while the CLK latch is low, clocks exactly
\* 8 cycles, and returns the byte the RC-S926 presented bit by bit (when DATA
\* is an input; when it is an output the samples are the host's own latch).
C3_GetByteMsbFirst ==
  /\ pc = "get_sample" => "CLK" \notin port
  /\ (pc = "done" /\ op = "get") =>
       /\ Len(bus) = BitsPerByte
       /\ "DATA" \notin ddr => retByte = dev[1]
       /\ "DATA" \in ddr => retByte = (Uint8Mod - 1) * Level(port, "DATA")

C3_Witness ==
  /\ pc = "done"
  /\ op = "get"
  /\ "DATA" \notin ddr
  /\ dev = <<165>>
  /\ retByte = 165

\* C4: twspi_get_buf calls twspi_get length times and stores the results in
\* call order at consecutive positions: the buffer ends up holding the bytes
\* the RC-S926 presented, in that order.
C4_GetBufferInOrder ==
  (pc = "done" /\ op = "get_buf") =>
    /\ bi = Len(dev)
    /\ Len(out) = Len(dev)
    /\ Len(bus) = BitsPerByte * Len(dev)
    /\ "DATA" \notin ddr => out = dev

C4_Witness ==
  /\ pc = "done"
  /\ op = "get_buf"
  /\ "DATA" \notin ddr
  /\ dev = <<60, 255>>
  /\ out = <<60, 255>>

\* C5: twspi_begin_send returns with DATA an output and SEL low,
\* twspi_end_send returns with DATA an input and SEL high, and the sends in
\* between leave both as they are.
C5_BeginEndSend ==
  [][ /\ (pc' = "done" /\ op' = "begin_send") =>
           ("DATA" \in ddr' /\ "SEL" \notin port')
      /\ (pc' = "done" /\ op' = "end_send") =>
           ("DATA" \notin ddr' /\ "SEL" \in port')
      /\ op' \in {"send", "send_buf", "send_buf_p"} =>
           (ddr' = ddr /\ ("SEL" \in port') = ("SEL" \in port)) ]_vars

C5_Witness ==
  /\ pc = "done"
  /\ op = "end_send"
  /\ "DATA" \notin ddr
  /\ "SEL" \in port
  /\ ~inSend

C7_DisableReleases ==
  [][ /\ (pc' = "done" /\ op' = "disable") => ddr' \cap Controlled = {}
      /\ (ddr' \cap Controlled) \ ddr # {} => op' = "init" ]_vars

C7_Witness ==
  /\ pc = "done"
  /\ op = "disable"
  /\ inSend
  /\ "SW" \in port
  /\ ddr \cap Controlled = {}

\* C8: rcs926_resume sets the SW latch and returns only after 50 us of delay
\* since that write; rcs926_suspend clears the SW latch and returns without
\* any delay.
C8_ResumeSettles ==
  /\ pc = "resume_delay" => ("SW" \in port /\ waited = 0)
  /\ (pc = "done" /\ op = "resume") => ("SW" \in port /\ waited >= 50)
  /\ (pc = "done" /\ op = "suspend") => ("SW" \notin port /\ waited = 0)

C8_Witness ==
  /\ pc = "done"
  /\ op = "resume"
  /\ "SW" \in port
  /\ waited = 50

\* C9: rcs926_rf_present returns true iff the RFDET level it read is low,
\* rcs926_data_ready returns true iff the IRQ level it read is high, and
\* neither writes a register.
C9_QueriesSnapshot ==
  [][ /\ op' = "rf_present" =>
           /\ retBool' = (Level(sample', "RFDET") = 0)
           /\ UNCHANGED regs
      /\ op' = "data_ready" =>
           /\ retBool' = (Level(sample', "IRQ") = 1)
           /\ UNCHANGED regs ]_vars

C9_Witness ==
  /\ pc = "done"
  /\ op = "rf_present"
  /\ sample = {"IRQ"}
  /\ retBool

\* C10: a wake-source call with enable = false clears its own mask bit only;
\* PCIE0 is set once any call has passed enable = true and is never cleared;
\* after rf(true), irq(true), rf(false) PCINT4 and PCIE0 are still set.
C10_SharedEnableSticky ==
  [][ /\ EnabledOnce(wakeLog') => "PCIE0" \in pcicr'
      /\ "PCIE0" \in pcicr => "PCIE0" \in pcicr'
      /\ (op' = "wake_up_on_rf" /\ ~LastCall(wakeLog')[2]) =>
           (pcmsk0' = pcmsk0 \ {"PCINT5"} /\ pcicr' = pcicr)
      /\ (op' = "wake_up_on_irq" /\ ~LastCall(wakeLog')[2]) =>
           (pcmsk0' = pcmsk0 \ {"PCINT4"} /\ pcicr' = pcicr)
      /\ wakeLog' = <<<<"rf", TRUE>>, <<"irq", TRUE>>, <<"rf", FALSE>>>> =>
           (pcmsk0' = {"PCINT4"} /\ pcicr' = {"PCIE0"}) ]_vars

C10_Witness ==
  /\ pc = "done"
  /\ wakeLog = <<<<"rf", TRUE>>, <<"irq", TRUE>>, <<"rf", FALSE>>>>
  /\ pcmsk0 = {"PCINT4"}
  /\ pcicr = {"PCIE0"}

\* the three functions that take a buffer and a length
BufferOps == {"send_buf", "send_buf_p", "get_buf"}

\* C11: a buffer function called with len = 0 is rejected and transfers
\* nothing: no clock cycle, no buffer element read or written.
C11_ZeroLengthRejected ==
  op \in BufferOps => (bus = << >> /\ bi = 0)

\* the k-th bit (from 1) of the bytes of s, each most significant bit first
BitAt(s, k) == BitOf(s[((k - 1) \div 8) + 1], 7 - ((k - 1) % 8))

\* C15: called with len = 0, the countdown of the buffer functions wraps:
\* they transfer 256 bytes, all of them read from, or written to, the memory
\* behind the caller's (empty) buffer.
C15_ZeroLengthWraps ==
  (pc = "done" /\ op \in BufferOps) =>
    /\ bi = 256
    /\ Len(bus) = 2048
    /\ op \in {"send_buf", "send_buf_p"} => (mem = << >> /\ \A k \in 1 .. 2048 : bus[k] = BitAt(ram, k))
    /\ op = "get_buf" => (out = << >> /\ ram = dev)

C15_Witness ==
  /\ pc = "done"
  /\ op = "get_buf"
  /\ out = << >>
  /\ bi = 256
  /\ \A k \in 1 .. 256 : ram[k] = 255

\* the two lines the driver only reads
InputOnly == {"IRQ", "RFDET"}

\* C12 as stated: in every reachable state SEL, CLK and SW are outputs and
\* IRQ and RFDET are inputs.
C12_AlwaysOutputs ==
  /\ Controlled \subseteq ddr
  /\ InputOnly \cap ddr = {}

\* C12 as amended: SEL, CLK and SW are outputs from the return of twspi_init
\* until the next twspi_disable (they are inputs after reset and after
\* twspi_disable); IRQ and RFDET are inputs in every reachable state.
C12_OutputsWhileEnabled ==
  [][ /\ InputOnly \cap ddr' = {}
      /\ op' = "init" => Controlled \subseteq ddr'
      /\ (Controlled \subseteq ddr /\ op' # "disable") =>
           Controlled \subseteq ddr' ]_vars

C12_Witness ==
  /\ pc = "done"
  /\ op = "get_buf"
  /\ inSend
  /\ Controlled \subseteq ddr
  /\ InputOnly \cap ddr = {}

C14_NoDriveWhileSelectHigh ==
  /\ "DATA" \in ddr => "SEL" \notin port
  /\ pc = "bs_ddr" => ("SEL" \notin port /\ waited >= 1)
  /\ pc = "es_sel" => ("DATA" \notin ddr /\ waited >= 1)

C14_Witness ==
  /\ pc = "es_sel"
  /\ inSend
  /\ "DATA" \notin ddr
  /\ "SEL" \notin port
  /\ waited = 1

\* the caller is inside a transfer function
InTransfer ==
  /\ op \in {"send", "get"} \cup BufferOps
  /\ pc # "done"

\* C16: a transfer never waits: inside a transfer the next statement can
\* always be executed, whatever the RC-S926 puts on DATA; every transfer
\* returns, twspi_send / twspi_get after 8 clock cycles and the buffer
\* functions after len bytes of 8 cycles each.
C16_TransfersComplete ==
  /\ [](InTransfer => ENABLED Step)
  /\ []((pc = "done" /\ op \in {"send", "get"}) => Len(bus) = 8)
  /\ []((pc = "done" /\ op \in {"send_buf", "send_buf_p"}) =>
         (bi = Len(mem) /\ Len(bus) = 8 * Len(mem)))
  /\ []((pc = "done" /\ op = "get_buf") =>
         (bi = Len(out) /\ Len(bus) = 8 * Len(out)))
  /\ InTransfer ~> (pc = "done")

C16_Witness ==
  /\ pc = "done"
  /\ op = "get_buf"
  /\ dev = <<255, 60>>
  /\ Len(bus) = 16

\* C17: twspi_send takes no lock.  As long as no other context writes the
\* port during the byte, the bus carries the bits of v, most significant
\* first; a handler that runs twspi_send between two statements of the byte
\* can leave something else on the bus (the state of C17_Witness).
C17_SerializedIsClean ==
  (op = "send" /\ irqs = 0) =>
    /\ Len(bus) <= 8
    /\ \A k \in 1 .. Len(bus) : bus[k] = BitOf(mem[1], 8 - k)
    /\ pc = "done" => bus = MsbFirst(mem[1])

C17_Witness ==
  /\ pc = "done"
  /\ op = "send"
  /\ pc2 = "idle"
  /\ irqs = 1
  /\ mem = <<165>>
  /\ bus # MsbFirst(165)
  /\ Len(bus) = 15

\* C18: the DATA latch changes only in steps that start and end with the CLK
\* latch low; the statement that writes it (after the falling edge, before
\* the rising edge of its cycle) runs with CLK low; and every transfer
\* returns with the CLK latch high.
C18_DataStableWhileClockHigh ==
  /\ [][ Level(port, "DATA") # Level(port', "DATA") =>
           /\ "CLK" \notin port
           /\ "CLK" \notin port'
           /\ pc = "send_data" ]_vars
  /\ [](pc = "send_data" => "CLK" \notin port)
  /\ []((pc \in {"send_delay1", "send_clk_hi"}) => "CLK" \notin port)
  /\ []((pc = "done" /\ op \in BufferOps \cup {"send", "get"}) =>
          "CLK" \in port)

C18_Witness ==
  /\ op = "send"
  /\ pc = "send_delay2"
  /\ "CLK" \in port
  /\ Len(bus) = 2
  /\ bus[1] # bus[2]

\* the step leaves the directions, the wake-source registers and every
\* latch outside bits as they are
TouchesOnly(bits) ==
  /\ UNCHANGED <<ddr, pcicr, pcmsk0>>
  /\ port' \ bits = port \ bits

\* C19: every step of twspi_send changes at most the CLK and DATA latches,
\* every step of twspi_get at most the CLK latch, and rcs926_suspend and
\* rcs926_resume at most the SW latch.
C19_OwnLinesOnly ==
  [][ /\ op' = "send" => TouchesOnly({"CLK", "DATA"})
      /\ op' = "get" => TouchesOnly({"CLK"})
      /\ op' \in {"suspend", "resume"} => TouchesOnly({"SW"}) ]_vars

C19_Witness ==
  /\ op = "get"
  /\ pc = "done"
  /\ {"DATA", "SW", "CLK"} \subseteq port
  /\ "SEL" \notin port
  /\ "DATA" \in ddr
  /\ pcmsk0 # {}

\* the argument of the most recent call in log for the source name, FALSE
\* if there was none
LastArg(log, name) ==
  IF \E k \in DOMAIN log : log[k][1] = name
    THEN log[CHOOSE k \in DOMAIN log :
               /\ log[k][1] = name
               /\ \A j \in DOMAIN log : j > k => log[j][1] # name][2]
    ELSE FALSE

\* C20: each mask bit equals the argument of the most recent call for its
\* own source (clear if there was none), and a call for one source leaves
\* the other source's mask bit as it was.
C20_MaskBitsIndependent ==
  /\ []( /\ ("PCINT5" \in pcmsk0) = LastArg(wakeLog, "rf")
          /\ ("PCINT4" \in pcmsk0) = LastArg(wakeLog, "irq") )
  /\ [][ /\ op' = "wake_up_on_rf" =>
             ("PCINT4" \in pcmsk0') = ("PCINT4" \in pcmsk0)
         /\ op' = "wake_up_on_irq" =>
             ("PCINT5" \in pcmsk0') = ("PCINT5" \in pcmsk0) ]_vars

C20_Witness ==
  /\ wakeLog = <<<<"irq", TRUE>>, <<"rf", TRUE>>, <<"irq", FALSE>>>>
  /\ pcmsk0 = {"PCINT5"}

====
